---- MODULE Spec2Model ----
(***************************************************************************)
(* Model of NgbPagination (src/src/pagination/pagination.ts).              *)
(*                                                                         *)
(* The state is the component's fields.  The host writes the @Input()      *)
(* fields (one action per field), the framework calls ngOnChanges, and the *)
(* template or the host calls selectPage.  The presentation-only inputs    *)
(* boundaryLinks, directionLinks and size are read by the template alone   *)
(* and are left out.                                                       *)
(*                                                                         *)
(* JavaScript numbers that may leave the integers (the result of           *)
(* collectionSize / pageSize, an unset collectionSize) are records         *)
(* [kind, val]: kind "num" carries the integer val, the other kinds are    *)
(* NaN, Infinity, -Infinity and undefined.                                 *)
(***************************************************************************)
EXTENDS Integers, Sequences, FiniteSets

\* ------------------------------------------------------------------ bounds
MaxCollectionSize == 5
MaxPageSize == 2
MaxMaxSize == 3
MaxPending == 1
MaxRuns == 2

\* ------------------------------------------------------- JavaScript numbers
Num(n) == [kind |-> "num", val |-> n]
NaN == [kind |-> "NaN", val |-> 0]
PosInf == [kind |-> "Infinity", val |-> 0]
NegInf == [kind |-> "-Infinity", val |-> 0]
Undefined == [kind |-> "undefined", val |-> 0]

IsNum(a) == a.kind = "num"

\* a < b on JavaScript numbers: any comparison with NaN (or undefined, which
\* converts to NaN) is false.
JsLess(a, b) ==
    CASE a.kind \in {"NaN", "undefined"} \/ b.kind \in {"NaN", "undefined"} -> FALSE
      [] a.kind = "num" /\ b.kind = "num" -> a.val < b.val
      [] a.kind = "-Infinity" -> b.kind # "-Infinity"
      [] b.kind = "Infinity" -> a.kind # "Infinity"
      [] OTHER -> FALSE

\* a <= b on JavaScript numbers.
JsLeq(a, b) ==
    \/ JsLess(a, b)
    \/ a.kind \notin {"NaN", "undefined"} /\ a = b

Max(a, b) == IF a >= b THEN a ELSE b
Min(a, b) == IF a <= b THEN a ELSE b

\* ceil(a / b) on integers, b # 0.
CeilDiv(a, b) ==
    IF b > 0 THEN -((-a) \div b) ELSE -(a \div (-b))

\* Mutant of MathCeilDiv: Math.floor in place of Math.ceil.
MathFloorDiv(cs, ps) ==
    IF ~IsNum(cs) THEN NaN
    ELSE IF ps = 0
         THEN (IF cs.val = 0 THEN NaN ELSE IF cs.val > 0 THEN PosInf ELSE NegInf)
         ELSE Num(-CeilDiv(-cs.val, ps))

\* Math.ceil(collectionSize / pageSize): collectionSize is a JavaScript number
\* or undefined, pageSize an integer.
MathCeilDiv(cs, ps) ==
    IF ~IsNum(cs) THEN NaN
    ELSE IF ps = 0
         THEN (IF cs.val = 0 THEN NaN ELSE IF cs.val > 0 THEN PosInf ELSE NegInf)
         ELSE Num(CeilDiv(cs.val, ps))

\* Array.prototype.slice(start, end) on a sequence (0-based, end exclusive).
Slice(s, from, to) ==
    LET len == Len(s)
        f == IF from < 0 THEN Max(len + from, 0) ELSE Min(from, len)
        t == IF to < 0 THEN Max(len + to, 0) ELSE Min(to, len)
    IN  SubSeq(s, f + 1, t)

\* ------------------------------------------------------------------- util
\* getValueInRange(value, max, min) of ../util/util: min when max <= 0 or
\* value < min, max when value > max, else value.
getValueInRange(value, max, min) ==
    IF JsLeq(max, Num(0)) \/ value < min THEN min
    ELSE IF JsLess(max, Num(value)) THEN max.val
    ELSE value

\* ------------------------------------------------------------------ state
VARIABLES
    collectionSize,   \* @Input() collectionSize: a JavaScript number or undefined
    pageSize,         \* @Input() pageSize
    maxSize,          \* @Input() maxSize
    rotate,           \* @Input() rotate
    ellipses,         \* @Input() ellipses
    page,             \* @Input() page
    _pageCount,       \* private _pageCount: a JavaScript number
    pages,            \* pages: the display sequence, -1 is the ellipsis
    start,            \* ngOnChanges' local start of the last windowing
    end,              \* ngOnChanges' local end of the last windowing
    emitted,          \* payloads pageChange emitted during the last operation
    last,             \* the last operation: "init", "write", "ngOnChanges", "selectPage"
    pending,          \* input writes since the last recompute
    runs,             \* recomputes in a row since the last input change, up to MaxRuns
    seenAtEmit,       \* what the pageChange handler finds in the component when called
    diverged          \* the fill loop of ngOnChanges is running forever

vars == <<collectionSize, pageSize, maxSize, rotate, ellipses, page, _pageCount,
          pages, start, end, emitted, last, pending, runs, seenAtEmit, diverged>>

Ellipsis == -1

\* ------------------------------------------------------------- operations
hasPrevious == page > 1

hasNext == JsLess(Num(page), _pageCount)

_isEllipsis(pageNumber) == pageNumber = Ellipsis

\* Mutant of _getPageNoInRange: the least page is 0 instead of 1.
_getPageNoInRange_Min0(newPageNo, pageCount) == getValueInRange(newPageNo, pageCount, 0)

_getPageNoInRange(newPageNo, pageCount) == getValueInRange(newPageNo, pageCount, 1)

\* The fill loop: for (i = 1; i <= _pageCount; i++) pages.push(i).
FillTerminates(pageCount) == pageCount.kind # "Infinity"

\* Mutant of FillPages: the list is not emptied before it is filled.
FillPages_NoClear(pageCount) ==
    pages \o (IF IsNum(pageCount) /\ pageCount.val >= 1
              THEN [i \in 1..pageCount.val |-> i]
              ELSE <<>>)

FillPages(pageCount) ==
    IF IsNum(pageCount) /\ pageCount.val >= 1
    THEN [i \in 1..pageCount.val |-> i]
    ELSE <<>>

\* Mutant of ApplyMaxSize: the comparison with the page count is forgotten.
ApplyMaxSize_NoCount(ms, pageCount) == ms > 0

\* The condition under which ngOnChanges windows the page list.
ApplyMaxSize(ms, pageCount) == ms > 0 /\ JsLess(Num(ms), pageCount)

\* Mutant of _applyRotation: the right offset ignores the parity of maxSize.
_applyRotation_Symmetric(pg, ms, pageCount) ==
    LET leftOffset == ms \div 2
        rightOffset == leftOffset
    IN  IF pg <= leftOffset
        THEN <<0, ms>>
        ELSE IF pageCount - pg < leftOffset
        THEN <<pageCount - ms, pageCount>>
        ELSE <<pg - leftOffset - 1, pg + rightOffset>>

_applyRotation(pg, ms, pageCount) ==
    LET leftOffset == ms \div 2
        rightOffset == IF ms % 2 = 0 THEN leftOffset - 1 ELSE leftOffset
    IN  IF pg <= leftOffset
        THEN <<0, ms>>
        ELSE IF pageCount - pg < leftOffset
        THEN <<pageCount - ms, pageCount>>
        ELSE <<pg - leftOffset - 1, pg + rightOffset>>

\* Mutant of _applyPagination: the block is taken with floor instead of ceil.
_applyPagination_Floor(pg, ms, pageCount) ==
    LET blk == pg \div ms
        s == blk * ms
    IN  <<s, s + ms>>

\* Mutant of _applyPagination: the block is one page too long.
_applyPagination_Long(pg, ms, pageCount) ==
    LET blk == CeilDiv(pg, ms) - 1
        s == blk * ms
    IN  <<s, s + ms + 1>>

_applyPagination(pg, ms, pageCount) ==
    LET blk == CeilDiv(pg, ms) - 1
        s == blk * ms
    IN  <<s, s + ms>>

\* Mutant of _applyEllipses: the leading pair is added when start is 0 too.
_applyEllipses_Always(pgs, s, e, pageCount, ell) ==
    IF ell
    THEN (IF s >= 0 THEN <<1, Ellipsis>> ELSE <<>>)
         \o pgs
         \o (IF e < pageCount THEN <<Ellipsis, pageCount>> ELSE <<>>)
    ELSE pgs

_applyEllipses(pgs, s, e, pageCount, ell) ==
    IF ell
    THEN (IF s > 0 THEN <<1, Ellipsis>> ELSE <<>>)
         \o pgs
         \o (IF e < pageCount THEN <<Ellipsis, pageCount>> ELSE <<>>)
    ELSE pgs

\* Mutant of RecomputedPage: the page is not clamped again.
RecomputedPage_NoClamp(pg, pageCount) == pg

\* The page ngOnChanges leaves: this.page = this._getPageNoInRange(this.page).
RecomputedPage(pg, pageCount) == _getPageNoInRange(pg, pageCount)

\* The body of ngOnChanges, run with this.page = pg.
ngOnChangesBody(pg) ==
    LET pageCount == MathCeilDiv(collectionSize, pageSize)
    IN  /\ _pageCount' = pageCount
        /\ IF ~FillTerminates(pageCount)
           THEN /\ diverged' = TRUE
                /\ pages' = <<>>
                /\ page' = pg
                /\ UNCHANGED <<start, end>>
           ELSE LET full == FillPages(pageCount)
                    newPage == RecomputedPage(pg, pageCount)
                IN  /\ diverged' = FALSE
                    /\ page' = newPage
                    /\ IF ApplyMaxSize(maxSize, pageCount)
                       THEN LET se == IF rotate
                                      THEN _applyRotation(newPage, maxSize, pageCount.val)
                                      ELSE _applyPagination(newPage, maxSize, pageCount.val)
                            IN  /\ start' = se[1]
                                /\ end' = se[2]
                                /\ pages' = _applyEllipses(Slice(full, se[1], se[2]),
                                                se[1], se[2], pageCount.val, ellipses)
                       ELSE /\ pages' = full
                            /\ start' = 0
                            /\ end' = 0

\* Mutant of selectPageEmit: the notification is sent on every call.
selectPageEmit_Always(newPage, prevPageNo) == <<newPage>>

\* What selectPage emits: pageChange.emit(this.page) if the page changed.
selectPageEmit(newPage, prevPageNo) ==
    IF newPage # prevPageNo THEN <<newPage>> ELSE <<>>

\* What a pageChange handler reads from the component during emit (line 115):
\* EventEmitter.emit calls it before selectPage goes on to ngOnChanges.
selectPageSeen(newPage, prevPageNo) ==
    IF newPage # prevPageNo
    THEN <<[page |-> newPage, pages |-> pages, pageCount |-> _pageCount]>>
    ELSE <<>>

\* ---------------------------------------------------------------- actions
Init ==
    /\ collectionSize = Undefined
    /\ pageSize = 10
    /\ maxSize = 0
    /\ rotate = FALSE
    /\ ellipses = TRUE
    /\ page = 0
    /\ _pageCount = Num(0)
    /\ pages = <<>>
    /\ start = 0
    /\ end = 0
    /\ emitted = <<>>
    /\ last = "init"
    /\ pending = 0
    /\ runs = 0
    /\ seenAtEmit = <<>>
    /\ diverged = FALSE

CanWrite == ~diverged /\ pending < MaxPending

Written ==
    /\ emitted' = <<>>
    /\ last' = "write"
    /\ pending' = pending + 1
    /\ runs' = 0
    /\ seenAtEmit' = <<>>
    /\ UNCHANGED <<_pageCount, pages, start, end, diverged>>

WriteCollectionSize ==
    /\ CanWrite
    /\ \E v \in (-1)..MaxCollectionSize : collectionSize' = Num(v)
    /\ Written
    /\ UNCHANGED <<pageSize, maxSize, rotate, ellipses, page>>

WritePageSize ==
    /\ CanWrite
    /\ \E v \in (-1)..MaxPageSize : pageSize' = v
    /\ Written
    /\ UNCHANGED <<collectionSize, maxSize, rotate, ellipses, page>>

WriteMaxSize ==
    /\ CanWrite
    /\ \E v \in 0..MaxMaxSize : maxSize' = v
    /\ Written
    /\ UNCHANGED <<collectionSize, pageSize, rotate, ellipses, page>>

WriteRotate ==
    /\ CanWrite
    /\ \E v \in BOOLEAN : rotate' = v
    /\ Written
    /\ UNCHANGED <<collectionSize, pageSize, maxSize, ellipses, page>>

WriteEllipses ==
    /\ CanWrite
    /\ \E v \in BOOLEAN : ellipses' = v
    /\ Written
    /\ UNCHANGED <<collectionSize, pageSize, maxSize, rotate, page>>

WritePage ==
    /\ CanWrite
    /\ \E v \in 0..(MaxCollectionSize + 1) : page' = v
    /\ Written
    /\ UNCHANGED <<collectionSize, pageSize, maxSize, rotate, ellipses>>

NgOnChanges ==
    /\ ~diverged
    /\ ngOnChangesBody(page)
    /\ emitted' = <<>>
    /\ seenAtEmit' = <<>>
    /\ last' = "ngOnChanges"
    /\ pending' = 0
    /\ runs' = Min(runs + 1, MaxRuns)
    /\ UNCHANGED <<collectionSize, pageSize, maxSize, rotate, ellipses>>

SelectPage(pageNumber) ==
    /\ ~diverged
    /\ LET prevPageNo == page
           newPage == _getPageNoInRange(pageNumber, _pageCount)
       IN  /\ emitted' = selectPageEmit(newPage, prevPageNo)
           /\ seenAtEmit' = selectPageSeen(newPage, prevPageNo)
           /\ ngOnChangesBody(newPage)
    /\ last' = "selectPage"
    /\ pending' = 0
    /\ runs' = 1
    /\ UNCHANGED <<collectionSize, pageSize, maxSize, rotate, ellipses>>

\* The targets selectPage is called with: the template's page - 1, page + 1,
\* 1, _pageCount and the page numbers shown, and any number the host passes.
PageNumbers == (-1)..(MaxCollectionSize + 1)

Select == \E pageNumber \in PageNumbers : SelectPage(pageNumber)

Next ==
    \/ WriteCollectionSize
    \/ WritePageSize
    \/ WriteMaxSize
    \/ WriteRotate
    \/ WriteEllipses
    \/ WritePage
    \/ NgOnChanges
    \/ Select

Spec == Init /\ [][Next]_vars

\* ----------------------------------------------------------------- claims
\* The state right after ngOnChanges or selectPage returned.
PostRecompute == last \in {"ngOnChanges", "selectPage"} /\ ~diverged

\* collectionSize >= 0 and pageSize > 0.
ValidConfig == IsNum(collectionSize) /\ collectionSize.val >= 0 /\ pageSize > 0

\* The real (non-ellipsis) entries of a display sequence.
RealPages(pgs) == SelectSeq(pgs, LAMBDA x : x # Ellipsis)

\* The ascending list lo..hi.
Range(lo, hi) == [i \in 1..(hi - lo + 1) |-> lo + i - 1]

\* C1: after every recompute and every selectPage, with collectionSize >= 0
\* and pageSize > 0, the page count is a number and
\* 1 <= page <= max(pageCount, 1).
C1_PageInRange ==
    (PostRecompute /\ ValidConfig) =>
        /\ IsNum(_pageCount)
        /\ 1 <= page
        /\ page <= Max(_pageCount.val, 1)

\* C1 witness: a selectPage left the page at the top of a range of 3 or more
\* pages.
C1_Witness ==
    /\ PostRecompute /\ ValidConfig
    /\ last = "selectPage"
    /\ IsNum(_pageCount) /\ _pageCount.val >= 3
    /\ page = _pageCount.val

\* C2: a selectPage(n) call emits exactly once, with the clamped target as
\* payload, when the clamped target differs from the page held before the
\* call, and emits nothing when they are equal; when no input was written
\* since the last recompute the payload is the page held when the call
\* returns.
C2_SelectEmitsOnce ==
    [][last' = "selectPage" =>
         \A n \in PageNumbers :
            SelectPage(n) =>
               LET target == getValueInRange(n, _pageCount, 1)
               IN  /\ target # page => emitted' = <<target>>
                   /\ target = page => emitted' = <<>>
                   /\ (pending = 0 /\ emitted' # <<>>) => emitted' = <<page'>>
      ]_vars

\* C2 witness: a selectPage emitted the page it moved to.
C2_Witness ==
    /\ last = "selectPage"
    /\ ~diverged
    /\ page >= 2
    /\ emitted = <<page>>

\* C3: a recompute that changes the page through clamping notifies the host
\* of the new page.
C3_RecomputeNotifies ==
    [][(NgOnChanges /\ page' # page) => emitted' = <<page'>>]_vars

\* The last recompute ran with maxSize > 0 and pageCount > maxSize.
Windowed ==
    /\ PostRecompute
    /\ maxSize > 0
    /\ IsNum(_pageCount) /\ _pageCount.val > maxSize

\* C4: after every recompute with maxSize > 0 and pageCount > maxSize the
\* display sequence holds at most maxSize real pages without ellipses and at
\* most maxSize + 2 with them.
C4_WindowSize ==
    Windowed =>
        Len(RealPages(pages)) <= (IF ellipses THEN maxSize + 2 ELSE maxSize)

\* C4 witness: a windowed sequence with both boundary pages added.
C4_Witness ==
    /\ Windowed
    /\ ellipses
    /\ Len(RealPages(pages)) = maxSize + 2

\* The pages of the window the last recompute cut: pages.slice(start, end) of
\* the full list 1..pageCount.
Window == Slice(FillPages(_pageCount), start, end)


\* The first page of the centered range [page - floor(maxSize/2), page +
\* rightOffset], shifted by the least amount that puts it inside
\* [1, pageCount].
CenteredFirst ==
    LET half == maxSize \div 2
        lo == page - half
        hi == lo + maxSize - 1
    IN  IF lo < 1 THEN 1
        ELSE IF hi > _pageCount.val THEN _pageCount.val - maxSize + 1
        ELSE lo

\* C5: with rotate, maxSize > 0 and pageCount > maxSize the window is
\* exactly maxSize consecutive pages: the centered range shifted by the least
\* amount needed to lie in [1, pageCount]; page 1 gives 1..maxSize and page
\* pageCount gives pageCount-maxSize+1..pageCount.
C5_RotationWindow ==
    (Windowed /\ rotate) =>
        /\ Window = Range(CenteredFirst, CenteredFirst + maxSize - 1)
        /\ Len(Window) = maxSize
        /\ page = 1 => Window = Range(1, maxSize)
        /\ page = _pageCount.val =>
               Window = Range(_pageCount.val - maxSize + 1, _pageCount.val)
        /\ ~ellipses => pages = Window

\* C5 witness: an even maxSize with the page in the interior, one more page
\* to its left than to its right.
C5_Witness ==
    /\ Windowed /\ rotate
    /\ maxSize = 2
    /\ page = 3
    /\ _pageCount.val = 5
    /\ Window = <<2, 3>>

\* The 0-based block of the page: ceil(page / maxSize) - 1.
Block(pg) == CeilDiv(pg, maxSize) - 1

\* C6: with rotate off, maxSize > 0 and pageCount > maxSize the window is the
\* fixed block of the page, b*maxSize+1 .. min((b+1)*maxSize, pageCount), and
\* two recomputes under the same inputs with pages of the same block give
\* the same display sequence.
C6_PaginationBlocks ==
    /\ [](( Windowed /\ ~rotate) =>
            Window = Range(Block(page) * maxSize + 1,
                           Min((Block(page) + 1) * maxSize, _pageCount.val)))
    /\ [][( /\ Windowed /\ ~rotate
            /\ Windowed' /\ ~rotate'
            /\ collectionSize' = collectionSize
            /\ pageSize' = pageSize
            /\ maxSize' = maxSize
            /\ ellipses' = ellipses
            /\ Block(page') = Block(page) )
          => (pages' = pages /\ start' = start /\ end' = end)]_vars

\* C6 witness: a selectPage to the last page of the second block.
C6_Witness ==
    /\ Windowed /\ ~rotate
    /\ last = "selectPage"
    /\ maxSize = 2
    /\ page = 4
    /\ emitted = <<4>>
    /\ pages = <<1, Ellipsis, 3, 4, Ellipsis, 5>>

\* C7: when windowing is active the display sequence is the window alone
\* without ellipses; with ellipses it is the window preceded by 1, ellipsis
\* iff page 1 is not in the window and followed by ellipsis, pageCount iff
\* the last page is not in the window.
C7_EllipsisPlacement ==
    Windowed =>
        LET hasFirst == \E i \in 1..Len(Window) : Window[i] = 1
            hasLast == \E i \in 1..Len(Window) : Window[i] = _pageCount.val
        IN  pages = (IF ellipses /\ ~hasFirst THEN <<1, Ellipsis>> ELSE <<>>)
                    \o Window
                    \o (IF ellipses /\ ~hasLast
                        THEN <<Ellipsis, _pageCount.val>> ELSE <<>>)

\* C7 witness: both boundary pairs around an interior window.
C7_Witness ==
    /\ Windowed
    /\ ellipses
    /\ pages = <<1, Ellipsis, 2, 3, 4, Ellipsis, 5>>

\* C8: with pageSize <= 0 or collectionSize < 0 a recompute ends and leaves
\* page count 0, page 1 and an empty display sequence.
C8_DegenerateSafe ==
    ( /\ last \in {"ngOnChanges", "selectPage"}
      /\ IsNum(collectionSize)
      /\ (pageSize <= 0 \/ collectionSize.val < 0) )
    => ( /\ ~diverged
         /\ _pageCount = Num(0)
         /\ page = 1
         /\ pages = <<>> )

DisabledStep(n) ==
    \/ ~hasPrevious /\ n = page - 1
    \/ ~hasNext /\ n = page + 1

\* C10 (as stated): in every reachable state hasPrevious() iff page > 1 and
\* hasNext() iff page < pageCount, and selectPage(page - 1) without a
\* previous page, selectPage(page + 1) without a next page, leave the page
\* and emit nothing.
C10_DisabledIsNoOp ==
    /\ [](hasPrevious <=> page > 1)
    /\ [](IsNum(_pageCount) => (hasNext <=> page < _pageCount.val))
    /\ [][\A n \in PageNumbers :
            (DisabledStep(n) /\ SelectPage(n)) =>
                (page' = page /\ emitted' = <<>>)]_vars

\* The page count is no NaN and no input was written since the last
\* recompute.
Settled == PostRecompute /\ pending = 0 /\ _pageCount.kind # "NaN"

\* C10 (amended): the same, for the states right after a recompute or a
\* selectPage with a page count that is not NaN.
C10_DisabledIsNoOpSettled ==
    /\ [](hasPrevious <=> page > 1)
    /\ [](IsNum(_pageCount) => (hasNext <=> page < _pageCount.val))
    /\ [][\A n \in PageNumbers :
            (Settled /\ DisabledStep(n) /\ SelectPage(n)) =>
                (page' = page /\ emitted' = <<>>)]_vars

\* C10 witness: selectPage(page + 1) on the last of 3 or more pages left the
\* page and emitted nothing.
C10_Witness ==
    /\ Settled
    /\ last = "selectPage"
    /\ IsNum(_pageCount) /\ _pageCount.val >= 3
    /\ page = _pageCount.val
    /\ ~hasNext
    /\ emitted = <<>>

\* C11: a recompute that follows a recompute, with no input changed in
\* between, leaves the page count, the page and the display sequence as
\* they are.
C11_RecomputeIdempotent ==
    [][(last' = "ngOnChanges" /\ runs >= 1 /\ NgOnChanges) =>
          /\ _pageCount' = _pageCount
          /\ page' = page
          /\ pages' = pages
          /\ diverged' = diverged
      ]_vars

\* C11 witness: a second recompute in a row has run on a windowed sequence
\* with both boundary pairs.
C11_Witness ==
    /\ last = "ngOnChanges"
    /\ runs = 2
    /\ pages = <<1, Ellipsis, 2, 3, 4, Ellipsis, 5>>

\* C12: after every recompute with collectionSize >= 0 and pageSize > 0 the
\* page count is the least integer n with n * pageSize >= collectionSize, and
\* it is 0 iff collectionSize is 0.
C12_PageCount ==
    (PostRecompute /\ ValidConfig) =>
        /\ IsNum(_pageCount)
        /\ _pageCount.val * pageSize >= collectionSize.val
        /\ (_pageCount.val - 1) * pageSize < collectionSize.val
        /\ (_pageCount.val = 0 <=> collectionSize.val = 0)

\* C12 witness: 5 items in pages of 2 give 3 pages.
C12_Witness ==
    /\ PostRecompute
    /\ collectionSize = Num(5)
    /\ pageSize = 2
    /\ _pageCount = Num(3)

\* C13: the real pages next to an ellipsis differ by more than 1.
C13_EllipsisOmitsPages ==
    PostRecompute =>
        \A i \in 1..Len(pages) :
            pages[i] = Ellipsis =>
                /\ 1 < i /\ i < Len(pages)
                /\ pages[i + 1] - pages[i - 1] > 1

\* C14 (as stated): whenever the window selector ran, 0 <= start < end <=
\* pageCount and end - start <= maxSize.
C14_WindowBounds ==
    Windowed =>
        /\ 0 <= start /\ start < end /\ end <= _pageCount.val
        /\ end - start <= maxSize

\* C14 (amended): whenever the window selector ran, 0 <= start < end,
\* start < pageCount and end - start <= maxSize; with rotate
\* end <= pageCount, and without it end < pageCount + maxSize, the slice
\* ending at pageCount.
C14_WindowBoundsSliced ==
    Windowed =>
        /\ 0 <= start /\ start < end /\ start < _pageCount.val
        /\ end - start <= maxSize
        /\ rotate => end <= _pageCount.val
        /\ ~rotate => end < _pageCount.val + maxSize
        /\ Len(Window) = Min(end, _pageCount.val) - start

\* C14 witness: the last block of the pagination strategy passes the page
\* count.
C14_Witness ==
    /\ Windowed /\ ~rotate
    /\ _pageCount.val = 5
    /\ maxSize = 2
    /\ page = 5
    /\ start = 4
    /\ end = 6
    /\ pages = <<1, Ellipsis, 5>>

\* C15: when selectPage delivers the notification the component is fully
\* updated: the handler finds the page equal to the payload and the display
\* sequence computed for that page, the one selectPage leaves.
C15_HandlerSeesUpdatedState ==
    (last = "selectPage" /\ ~diverged /\ seenAtEmit # <<>>) =>
        /\ seenAtEmit[1].page = emitted[1]
        /\ seenAtEmit[1].pages = pages

\* C16: in every reachable state with collectionSize >= 0 and pageSize > 0
\* (the stored page count a number: 0 in a fresh component, or the count of
\* the last recompute), selectPage(n) leaves the page at n clamped into
\* [1, ceil(collectionSize / pageSize)], and the payload of a notification
\* it emits is the page held when it returns.
C16_SelectClampsToCurrentCount ==
    [][last' = "selectPage" =>
         \A n \in PageNumbers :
            (ValidConfig /\ IsNum(_pageCount) /\ SelectPage(n)) =>
               /\ page' = getValueInRange(n,
                             Num(CeilDiv(collectionSize.val, pageSize)), 1)
               /\ emitted' # <<>> => emitted' = <<page'>>
      ]_vars

\* C17: recompute and selectPage always return: the fill loop ends for every
\* configuration of the inputs.
C17_Terminates == ~diverged

\* C18: after every recompute or selectPage with pageCount >= 1 the current
\* page is exactly one entry of the display sequence.
C18_PageShownOnce ==
    (PostRecompute /\ IsNum(_pageCount) /\ _pageCount.val >= 1) =>
        Cardinality({i \in 1..Len(pages) : pages[i] = page}) = 1

\* C18 witness: the page is the first page and the window has left it: it
\* is shown by the window alone.
C18_Witness ==
    /\ PostRecompute
    /\ rotate /\ ellipses
    /\ page = 1
    /\ pages = <<1, 2, 3, Ellipsis, 5>>

\* C19: in every display sequence the real pages are strictly increasing
\* values of [1, pageCount], there are at most two ellipses, none is first
\* or last and no two are adjacent.
C19_WellFormedSequence ==
    PostRecompute =>
        LET real == RealPages(pages)
            dots == {i \in 1..Len(pages) : pages[i] = Ellipsis}
        IN  /\ \A i \in 1..Len(real) :
                  1 <= real[i] /\ JsLeq(Num(real[i]), _pageCount)
            /\ \A i \in 1..(Len(real) - 1) : real[i] < real[i + 1]
            /\ Cardinality(dots) <= 2
            /\ \A i \in dots : 1 < i /\ i < Len(pages) /\ (i + 1) \notin dots

\* C19 witness: a window at the end of the list, with the leading pair only.
C19_Witness ==
    /\ PostRecompute
    /\ page = 5
    /\ pages = <<1, Ellipsis, 3, 4, 5>>

====
